---- MODULE Spec2Model ----
(***************************************************************************)
(* Model of the Athena query-execution lifecycle of src/main.py: the       *)
(* execute_query tool (request validation), AthenaClient.execute_query     *)
(* (submission, polling under a deadline, statistics extraction, result    *)
(* decoding, exception handlers) and the engine it talks to.               *)
(*                                                                         *)
(* Python values are represented as follows.                               *)
(*   Optional[T]   None is <<>>, a present value v is <<v>>                *)
(*   str           a TLA+ string; f-strings are built with \o              *)
(*   dict row      a function from column names to Optional[str]           *)
(*   raw cell      Optional[str]: <<v>> has 'VarCharValue' v, <<>> has no  *)
(*                 'VarCharValue' key                                      *)
(***************************************************************************)
EXTENDS Integers, Sequences, FiniteSets, TLC

VARIABLES
    pc,                   \* position of the call in execute_query
    request,              \* the arguments of the tool call / the QueryRequest
    query_execution_id,   \* local of AthenaClient.execute_query (None: unassigned)
    start_time,           \* local: time.time() when polling starts
    status,               \* local: last observed state ("" : unassigned)
    state_change_reason,  \* local: last observed StateChangeReason
    execution,            \* local: last QueryExecution response (None: unassigned)
    results_response,     \* local: the page of get_query_results (None: unassigned)
    now,                  \* the clock read by time.time(), in seconds
    remote,               \* the engine's state of each execution ("NONE": not started)
    calls,                \* the engine calls issued so far, with their outcomes
    result,               \* the QueryResults returned (None: not returned)
    fault,                \* the exception that left the tool (None: none)
    execute_params,       \* local: the arguments of start_query_execution (None: unassigned)
    wake_at,              \* the time the pending asyncio.sleep ends (0: none pending)
    environ,              \* os.environ: the ATHENA_* variables (None: not set)
    athena_client,        \* the defaults of the global AthenaClient
    task,                 \* the coroutine the event loop is running
    suspended,            \* the frames of the coroutines that are not running
    lookup                \* the catalog lookup made and what it returned (None: none)

vars == <<pc, request, query_execution_id, start_time, status, state_change_reason,
          execution, results_response, now, remote, calls, result, fault,
          execute_params, wake_at, environ, athena_client, task, suspended,
          lookup>>

(* The state that is not local to the running execute_query call, the       *)
(* engine and the clock aside.                                              *)
outside == <<environ, athena_client, task, suspended, lookup>>

(***************************************************************************)
(* Bounds of the model.                                                    *)
(***************************************************************************)
MaxWaitIn == 2
MaxResultsIn == 2
MaxSleep == 2
MaxCols == 2
MaxRows == 2
MaxLatency == 1
MaxItems == 2

(***************************************************************************)
(* Program constants.                                                      *)
(***************************************************************************)
MaxResultsLimit == 1000
MaxWaitLimit == 3600
DefaultMaxResults == 100
DefaultMaxWait == 300
PollInterval == 1

None == <<>>
Some(v) == <<v>>

Min(a, b) == IF a < b THEN a ELSE b

Digits == <<"0", "1", "2", "3", "4", "5", "6", "7", "8", "9">>

RECURSIVE IntToStr(_)
IntToStr(n) ==
    IF n < 10 THEN Digits[n + 1]
    ELSE IntToStr(n \div 10) \o Digits[(n % 10) + 1]

(* Python truthiness of an Optional[int] and of an Optional[str]. *)
TruthyInt(o) == o # None /\ o[1] # 0
TruthyStr(o) == o # None /\ o[1] # ""

(***************************************************************************)
(* QueryRequest: Field(ge=1, le=1000) and Field(ge=1, le=3600); None       *)
(* passes an Optional field.                                               *)
(***************************************************************************)
ValidMaxResults(mr) == mr = None \/ (mr[1] >= 1 /\ mr[1] <= MaxResultsLimit)
ValidMaxWait(mw) == mw = None \/ (mw[1] >= 1 /\ mw[1] <= MaxWaitLimit)
(* A validation that forgets the bounds of max_wait_seconds. *)
QueryRequestValidResultsOnly(mr, mw) == ValidMaxResults(mr)

QueryRequestValid(mr, mw) == ValidMaxResults(mr) /\ ValidMaxWait(mw)

MaxResultsInputs ==
    {None} \cup {Some(n) : n \in 0..MaxResultsIn} \cup {Some(MaxResultsLimit + 1)}
MaxWaitInputs ==
    {Some(n) : n \in 0..MaxWaitIn} \cup {Some(MaxWaitLimit + 1)}

(* request.max_wait_seconds or 300 ; request.max_results or 100 *)
MaxWaitOf(r) == IF TruthyInt(r.max_wait_seconds) THEN r.max_wait_seconds[1] ELSE DefaultMaxWait
(* A results fetch that ignores the request and asks for the default page. *)
MaxResultsOfDefaultOnly(r) == DefaultMaxResults

MaxResultsOf(r) == IF TruthyInt(r.max_results) THEN r.max_results[1] ELSE DefaultMaxResults

(***************************************************************************)
(* The engine.                                                             *)
(***************************************************************************)
(* The identifiers the engine issues, in the order it issues them. *)
IdOrder == <<"qid-1", "qid-2">>
QueryIds == {IdOrder[i] : i \in DOMAIN IdOrder}
Issued == {id \in QueryIds : remote[id] # "NONE"}
FreshIds == {IdOrder[i] : i \in {j \in DOMAIN IdOrder : j = Cardinality(Issued) + 1}}
NonTerminal == {"QUEUED", "RUNNING"}
EngineTerminal == {"SUCCEEDED", "FAILED", "CANCELLED"}

ClientErrorMsg == "An error occurred (AccessDeniedException)"
OtherErrorMsg == "Could not connect to the endpoint URL"
Exceptions == {[cls |-> "ClientError", msg |-> ClientErrorMsg],
               [cls |-> "Exception", msg |-> OtherErrorMsg]}

(* Responses of get_query_execution in engine state st: the state, the    *)
(* optional StateChangeReason and the optional Statistics block.  The      *)
(* engine attaches a reason to FAILED and CANCELLED executions and a       *)
(* statistics block to executions that have ended.                         *)
Reasons == {None, Some(""), Some("SYNTAX_ERROR: line 1")}

StatisticsBlock(t, d, e, q, s) ==
    [TotalExecutionTimeInMillis |-> t, DataScannedInBytes |-> d,
     EngineExecutionTimeInMillis |-> e, QueryQueueTimeInMillis |-> q,
     ServiceProcessingTimeInMillis |-> s]

StatisticsBlocks ==
    {StatisticsBlock(Some(120), None, Some(100), None, Some(5)),
     StatisticsBlock(None, Some(2048), None, Some(15), None)}

StatusResponses(st) ==
    {[State |-> st, StateChangeReason |-> r, Statistics |-> b] :
        r \in (IF st \in {"FAILED", "CANCELLED"} THEN Reasons ELSE {None}),
        b \in (IF st \in NonTerminal THEN {None}
               ELSE {None} \cup {Some(x) : x \in StatisticsBlocks})}

(* Pages of get_query_results: the column metadata and the raw rows, each   *)
(* raw row being the list of cells of row['Data'].  ColumnInfo = None is a  *)
(* page without 'ResultSetMetadata'; Rows = None is a page without 'Rows'.  *)
(* A raw row is the header row (the column names as cell values), a row of  *)
(* values, a row whose first cell has no value, or a row one cell short.    *)
(* The engine returns at most MaxResults raw rows.                          *)
ColumnNames == {"a", "b"}
ColumnInfos == {[Name |-> n, Type |-> "varchar"] : n \in ColumnNames}
ColumnLists == UNION {[1..n -> ColumnInfos] : n \in 0..MaxCols}
HeaderRow(ci) == [i \in 1..Len(ci) |-> Some(ci[i].Name)]
ValueRow(n) == [i \in 1..n |-> Some("1")]
RawRows(ci) ==
    {HeaderRow(ci), ValueRow(Len(ci))}
    \cup (IF Len(ci) > 0
          THEN {[i \in 1..Len(ci) |-> IF i = 1 THEN None ELSE Some("1")],
                ValueRow(Len(ci) - 1)}
          ELSE {})
RowLists(ci, k) == UNION {[1..n -> RawRows(ci)] : n \in 0..k}

Pages(max_results) ==
    UNION {{[ColumnInfo |-> Some(ci), Rows |-> rs] :
               rs \in {None} \cup {Some(l) : l \in RowLists(ci, Min(max_results, MaxRows))}} :
           ci \in ColumnLists}
    \cup {[ColumnInfo |-> None, Rows |-> None]}

(***************************************************************************)
(* QueryResults values built by AthenaClient.execute_query.                *)
(***************************************************************************)
QueryResults(id, st, reason, stats, cols, rws, err) ==
    [query_execution_id |-> id, status |-> st, state_change_reason |-> reason,
     statistics |-> stats, columns |-> cols, rows |-> rws, error_message |-> err]

(* except ClientError / except Exception *)
ErrorResult(e) ==
    QueryResults("", "ERROR", None, None, None, None,
        Some((IF e.cls = "ClientError" THEN "AWS Client Error: "
              ELSE "Internal Server Error: ") \o e.msg))

TimeoutResult(id, max_wait) ==
    QueryResults(id, "TIMEOUT",
        Some("Query exceeded maximum wait time of " \o IntToStr(max_wait) \o " seconds"),
        None, None, None, None)

(* A statistics extraction that builds the object without testing for the   *)
(* block, giving an all-null object when the block is absent.               *)
ExtractStatisticsAlways(ex) ==
    LET b == IF ex.Statistics = None
             THEN [TotalExecutionTimeInMillis |-> None, DataScannedInBytes |-> None,
                   EngineExecutionTimeInMillis |-> None, QueryQueueTimeInMillis |-> None,
                   ServiceProcessingTimeInMillis |-> None]
             ELSE ex.Statistics[1]
    IN Some([processing_time_ms |-> b.TotalExecutionTimeInMillis,
             data_scanned_bytes |-> b.DataScannedInBytes,
             engine_execution_time_ms |-> b.EngineExecutionTimeInMillis,
             query_queue_time_ms |-> b.QueryQueueTimeInMillis,
             service_processing_time_ms |-> b.ServiceProcessingTimeInMillis])

(* statistics = None, or the five .get() of execution['Statistics'] *)
ExtractStatistics(ex) ==
    IF ex.Statistics = None THEN None
    ELSE LET b == ex.Statistics[1] IN
         Some([processing_time_ms |-> b.TotalExecutionTimeInMillis,
               data_scanned_bytes |-> b.DataScannedInBytes,
               engine_execution_time_ms |-> b.EngineExecutionTimeInMillis,
               query_queue_time_ms |-> b.QueryQueueTimeInMillis,
               service_processing_time_ms |-> b.ServiceProcessingTimeInMillis])

(* A failure result that copies the reason without the fallback message. *)
FailedResultNoFallback(id, st, reason, stats) ==
    QueryResults(id, st, reason, stats, None, None, reason)

FailedResult(id, st, reason, stats) ==
    QueryResults(id, st, reason, stats, None, None,
        Some(IF TruthyStr(reason) THEN reason[1]
             ELSE "Query failed with status: " \o st))

(***************************************************************************)
(* Result decoding.                                                        *)
(***************************************************************************)
ExtractColumns(ci) == [i \in 1..Len(ci) |-> [name |-> ci[i].Name, type |-> ci[i].Type]]

(* result_rows[1:] if result_rows and len(result_rows) > 0 else [] *)
DataRows(result_rows) == IF Len(result_rows) > 0 THEN Tail(result_rows) ELSE <<>>

(* The dict row_data after the first k iterations of the column loop: a     *)
(* later column overwrites the entry of an earlier column of the same name. *)
RECURSIVE DecodeRowUpTo(_, _, _)
DecodeRowUpTo(columns, data, k) ==
    IF k = 0 THEN <<>>
    ELSE LET prev == DecodeRowUpTo(columns, data, k - 1)
             name == columns[k].name
             v == IF k <= Len(data) THEN data[k] ELSE None
         IN [n \in (DOMAIN prev) \cup {name} |-> IF n = name THEN v ELSE prev[n]]

DecodeRow(columns, data) == DecodeRowUpTo(columns, data, Len(columns))

DecodeRows(columns, result_rows) ==
    LET data_rows == DataRows(result_rows)
    IN [j \in 1..Len(data_rows) |-> DecodeRow(columns, data_rows[j])]

SuccessResult(id, st, stats, page) ==
    LET columns == ExtractColumns(page.ColumnInfo[1])
        result_rows == IF page.Rows = None THEN <<>> ELSE page.Rows[1]
    IN QueryResults(id, st, None, stats, Some(columns),
                    Some(DecodeRows(columns, result_rows)), None)

(* One engine call: the operation, its QueryExecutionId and MaxResults      *)
(* arguments, whether it returned ("ok") or raised, and what it answered:   *)
(* the state for a status fetch, the message of the exception if it raised. *)
Call(op, id, n, out, detail) ==
    [op |-> op, id |-> id, max_results |-> n, out |-> out, detail |-> detail]

(* ---- the execution context: os.environ, the client defaults ---- *)

(* The values a request's optional string parameter takes. *)
RequestStrings == {None, Some(""), Some("req")}

(* The values an ATHENA_* environment variable takes (None: not set). *)
EnvStrings == {None, Some(""), Some("env")}

Environments ==
    [ATHENA_CATALOG : EnvStrings, ATHENA_DATABASE : EnvStrings,
     ATHENA_WORKGROUP : EnvStrings, ATHENA_OUTPUT_LOCATION : EnvStrings]

UnsetEnvironment ==
    [ATHENA_CATALOG |-> None, ATHENA_DATABASE |-> None,
     ATHENA_WORKGROUP |-> None, ATHENA_OUTPUT_LOCATION |-> None]

BuiltinCatalog == "AwsDataCatalog"
BuiltinWorkgroup == "primary"

(* os.environ.get(key, default): the default only when the key is not set. *)
EnvironGet(value, default) == IF value = None THEN default ELSE value

(* AthenaClient.__init__, lines 51-54 *)
AthenaClientInit(env) ==
    [default_catalog         |-> EnvironGet(env.ATHENA_CATALOG, Some(BuiltinCatalog)),
     default_database        |-> EnvironGet(env.ATHENA_DATABASE, None),
     default_workgroup       |-> EnvironGet(env.ATHENA_WORKGROUP, Some(BuiltinWorkgroup)),
     default_output_location |-> EnvironGet(env.ATHENA_OUTPUT_LOCATION, None)]

(* Python's "a or b" on optional strings: a when it is truthy, else b. *)
Or(a, b) == IF TruthyStr(a) THEN a ELSE b

(* execute_params as lines 65-84 build it. WorkGroup is always a key; the   *)
(* Catalog and Database keys are set only for a truthy value and the        *)
(* QueryExecutionContext only when one of them is; ResultConfiguration only *)
(* for a truthy output location. None stands for an absent key.             *)
ExecuteParams(req, client) ==
    LET catalog         == Or(req.catalog, client.default_catalog)
        database        == Or(req.database, client.default_database)
        output_location == Or(req.output_location, client.default_output_location)
        query_execution_context ==
            [Catalog  |-> IF TruthyStr(catalog) THEN catalog ELSE None,
             Database |-> IF TruthyStr(database) THEN database ELSE None]
    IN  [WorkGroup |-> Or(req.workgroup, client.default_workgroup),
         QueryExecutionContext |->
             IF query_execution_context.Catalog = None
                /\ query_execution_context.Database = None
             THEN None ELSE Some(query_execution_context),
         ResultConfiguration |->
             IF TruthyStr(output_location)
             THEN Some([OutputLocation |-> output_location[1]]) ELSE None]

(* AthenaClient.__init__ in app_lifespan: the client reads its defaults from *)
(* the environment once; no call has been made.                             *)
InitialFrame ==
    [pc |-> "idle",
     request |-> [max_results |-> None, max_wait_seconds |-> None,
                  catalog |-> None, database |-> None, workgroup |-> None,
                  output_location |-> None],
     query_execution_id |-> None, start_time |-> 0, status |-> "",
     state_change_reason |-> None, execution |-> None, results_response |-> None,
     calls |-> <<>>, result |-> None, fault |-> None, execute_params |-> None,
     wake_at |-> 0]

InitWith(envs, others) ==
    /\ pc = InitialFrame.pc
    /\ request = InitialFrame.request
    /\ query_execution_id = InitialFrame.query_execution_id
    /\ start_time = InitialFrame.start_time
    /\ status = InitialFrame.status
    /\ state_change_reason = InitialFrame.state_change_reason
    /\ execution = InitialFrame.execution
    /\ results_response = InitialFrame.results_response
    /\ now = 0
    /\ remote = [id \in QueryIds |-> "NONE"]
    /\ calls = InitialFrame.calls
    /\ result = InitialFrame.result
    /\ fault = InitialFrame.fault
    /\ execute_params = InitialFrame.execute_params
    /\ wake_at = InitialFrame.wake_at
    /\ environ \in envs
    /\ athena_client = AthenaClientInit(environ)
    /\ task = "t1"
    /\ suspended = [t \in others |-> InitialFrame]
    /\ lookup = None

(* The server started with no ATHENA_* variable set. *)
Init == InitWith({UnsetEnvironment}, {})

(* The execute_query tool: QueryRequest(...) raises ValidationError on an   *)
(* out-of-bounds field, before athena_client.execute_query is awaited.      *)
ToolCallWith(max_results_in, max_wait_in, strings_in) ==
    /\ pc = "idle"
    /\ \E mr \in max_results_in, mw \in max_wait_in,
          cat \in strings_in, db \in strings_in,
          wg \in strings_in, out \in strings_in :
         /\ request' = [max_results |-> mr, max_wait_seconds |-> mw,
                        catalog |-> cat, database |-> db, workgroup |-> wg,
                        output_location |-> out]
         /\ IF QueryRequestValid(mr, mw)
            THEN pc' = "submit" /\ fault' = fault
            ELSE pc' = "raised" /\ fault' = Some("ValidationError")
    /\ UNCHANGED <<query_execution_id, start_time, status, state_change_reason,
                   execution, results_response, now, remote, calls, result>>
    /\ UNCHANGED <<execute_params, wake_at, outside>>

(* The tool called with the context parameters left at their None default. *)
ToolCall == ToolCallWith(MaxResultsInputs, MaxWaitInputs, {None})

(* self.client.start_query_execution and lines 89-96 *)
StartQueryExecution ==
    /\ pc = "submit"
    /\ \/ \E id \in FreshIds :
            /\ calls' = Append(calls, Call("start_query_execution", "", 0, "ok", id))
            /\ query_execution_id' = Some(id)
            /\ remote' = [remote EXCEPT ![id] = "QUEUED"]
            /\ start_time' = now
            /\ status' = "RUNNING"
            /\ state_change_reason' = None
            /\ pc' = "loop"
            /\ UNCHANGED result
       \/ \E e \in Exceptions :
            /\ calls' = Append(calls, Call("start_query_execution", "", 0, "raised", e.msg))
            /\ result' = Some(ErrorResult(e))
            /\ pc' = "done"
            /\ UNCHANGED <<query_execution_id, remote, start_time, status,
                           state_change_reason>>
    /\ UNCHANGED <<request, execution, results_response, now, fault>>
    /\ execute_params' = Some(ExecuteParams(request, athena_client))
    /\ UNCHANGED <<wake_at, outside>>

(* A loop condition that still iterates when the deadline is just reached. *)
LoopConditionInclusive ==
    status \in NonTerminal /\ (now - start_time) <= MaxWaitOf(request)

(* while status in ('RUNNING', 'QUEUED') and (time.time() - start_time) < max_wait *)
LoopCondition ==
    status \in NonTerminal /\ (now - start_time) < MaxWaitOf(request)

(* The loop test; entering the body calls asyncio.sleep(1), which sets the   *)
(* time before which the coroutine is not resumed.                          *)
LoopCheck ==
    /\ pc = "loop"
    /\ pc' = IF LoopCondition THEN "sleep" ELSE "after"
    /\ wake_at' = IF LoopCondition THEN now + PollInterval ELSE wake_at
    /\ UNCHANGED <<request, query_execution_id, start_time, status, state_change_reason,
                   execution, results_response, now, remote, calls, result, fault>>
    /\ UNCHANGED <<execute_params, outside>>

(* A poll that does not wait before fetching. *)
SleepNoWait ==
    /\ pc = "sleep"
    /\ pc' = "fetch"
    /\ wake_at' = 0
    /\ UNCHANGED <<request, query_execution_id, start_time, status, state_change_reason,
                   execution, results_response, now, remote, calls, result, fault>>
    /\ UNCHANGED <<execute_params, outside>>

(* await asyncio.sleep(1): the coroutine resumes no earlier than the poll   *)
(* interval after it called sleep, and up to MaxSleep seconds from now.     *)
Sleep ==
    /\ pc = "sleep"
    /\ \E d \in 0..MaxSleep : now' = now + d /\ now' >= wake_at
    /\ pc' = "fetch"
    /\ wake_at' = 0
    /\ UNCHANGED <<request, query_execution_id, start_time, status, state_change_reason,
                   execution, results_response, remote, calls, result, fault>>
    /\ UNCHANGED <<execute_params, outside>>

(* self.client.get_query_execution(...) and lines 102-108; the blocking     *)
(* call takes up to MaxLatency seconds.                                     *)
GetQueryExecutionFrom(responses) ==
    /\ pc = "fetch"
    /\ \/ \E resp \in responses :
            /\ calls' = Append(calls, Call("get_query_execution", query_execution_id[1],
                                           0, "ok", resp.State))
            /\ execution' = Some(resp)
            /\ status' = resp.State
            /\ state_change_reason' = resp.StateChangeReason
            /\ pc' = IF resp.State \notin NonTerminal THEN "after" ELSE "loop"
            /\ UNCHANGED result
       \/ \E e \in Exceptions :
            /\ calls' = Append(calls, Call("get_query_execution", query_execution_id[1],
                                           0, "raised", e.msg))
            /\ result' = Some(ErrorResult(e))
            /\ pc' = "done"
            /\ UNCHANGED <<execution, status, state_change_reason>>
    /\ \E l \in 0..MaxLatency : now' = now + l
    /\ UNCHANGED <<request, query_execution_id, start_time, results_response,
                   remote, fault>>
    /\ UNCHANGED <<execute_params, wake_at, outside>>

(* A status fetch that polls again after a failed fetch. *)
GetQueryExecutionRetry ==
    /\ pc = "fetch"
    /\ \/ \E resp \in StatusResponses(remote[query_execution_id[1]]) :
            /\ calls' = Append(calls, Call("get_query_execution", query_execution_id[1],
                                           0, "ok", resp.State))
            /\ execution' = Some(resp)
            /\ status' = resp.State
            /\ state_change_reason' = resp.StateChangeReason
            /\ pc' = IF resp.State \notin NonTerminal THEN "after" ELSE "loop"
       \/ \E e \in Exceptions :
            /\ calls' = Append(calls, Call("get_query_execution", query_execution_id[1],
                                           0, "raised", e.msg))
            /\ pc' = "loop"
            /\ UNCHANGED <<execution, status, state_change_reason>>
    /\ \E l \in 0..MaxLatency : now' = now + l
    /\ UNCHANGED <<request, query_execution_id, start_time, results_response,
                   remote, result, fault>>
    /\ UNCHANGED <<execute_params, wake_at, outside>>

(* The engine answers with the state the execution is in. *)
GetQueryExecution == GetQueryExecutionFrom(StatusResponses(remote[query_execution_id[1]]))

(* A deadline test that does not look at the status. *)
TimedOutDeadlineOnly ==
    (now - start_time) >= MaxWaitOf(request)

(* A deadline test that forgets the QUEUED state. *)
TimedOutRunningOnly ==
    status = "RUNNING" /\ (now - start_time) >= MaxWaitOf(request)

(* A deadline test that is strict where the loop condition is not. *)
TimedOutStrict ==
    status \in NonTerminal /\ (now - start_time) > MaxWaitOf(request)

(* if status in ('RUNNING', 'QUEUED') and (time.time() - start_time) >= max_wait *)
TimedOut ==
    status \in NonTerminal /\ (now - start_time) >= MaxWaitOf(request)

(* A classification that fetches results for every status that is not a    *)
(* timeout.                                                                 *)
ClassifyResultsAlways ==
    /\ pc = "after"
    /\ IF TimedOut
       THEN /\ result' = Some(TimeoutResult(query_execution_id[1], MaxWaitOf(request)))
            /\ pc' = "done"
       ELSE /\ pc' = "results"
            /\ UNCHANGED result
    /\ UNCHANGED <<request, query_execution_id, start_time, status, state_change_reason,
                   execution, results_response, now, remote, calls, fault>>
    /\ UNCHANGED <<execute_params, wake_at, outside>>

(* A timeout return that also stops the execution on the engine. *)
ClassifyCancelling ==
    /\ pc = "after"
    /\ IF TimedOut
       THEN /\ result' = Some(TimeoutResult(query_execution_id[1], MaxWaitOf(request)))
            /\ calls' = Append(calls, Call("stop_query_execution", query_execution_id[1],
                                           0, "ok", ""))
            /\ remote' = [remote EXCEPT ![query_execution_id[1]] = "CANCELLED"]
            /\ pc' = "done"
       ELSE /\ IF status = "SUCCEEDED"
               THEN pc' = "results" /\ UNCHANGED result
               ELSE /\ result' = Some(FailedResult(query_execution_id[1], status,
                                  state_change_reason, ExtractStatistics(execution[1])))
                    /\ pc' = "done"
            /\ UNCHANGED <<calls, remote>>
    /\ UNCHANGED <<request, query_execution_id, start_time, status, state_change_reason,
                   execution, results_response, now, fault>>
    /\ UNCHANGED <<execute_params, wake_at, outside>>

(* Lines 110-130 and 172-181: the timeout return, the statistics and the    *)
(* return for a status other than SUCCEEDED.                                *)
Classify ==
    /\ pc = "after"
    /\ IF TimedOut
       THEN /\ result' = Some(TimeoutResult(query_execution_id[1], MaxWaitOf(request)))
            /\ pc' = "done"
       ELSE IF execution = None
       THEN /\ result' = Some(ErrorResult([cls |-> "Exception",
                                 msg |-> "local variable 'execution' referenced before assignment"]))
            /\ pc' = "done"
       ELSE IF status = "SUCCEEDED"
       THEN /\ pc' = "results"
            /\ UNCHANGED result
       ELSE /\ result' = Some(FailedResult(query_execution_id[1], status,
                                  state_change_reason, ExtractStatistics(execution[1])))
            /\ pc' = "done"
    /\ UNCHANGED <<request, query_execution_id, start_time, status, state_change_reason,
                   execution, results_response, now, remote, calls, fault>>
    /\ UNCHANGED <<execute_params, wake_at, outside>>

(* self.client.get_query_results(...) and lines 138-171 *)
GetQueryResultsFrom(pages) ==
    /\ pc = "results"
    /\ \/ \E page \in pages :
            /\ calls' = Append(calls, Call("get_query_results", query_execution_id[1],
                                           MaxResultsOf(request), "ok", ""))
            /\ results_response' = Some(page)
            /\ result' = Some(IF page.ColumnInfo = None
                              THEN ErrorResult([cls |-> "Exception",
                                                msg |-> "'ResultSetMetadata'"])
                              ELSE SuccessResult(query_execution_id[1], status,
                                       ExtractStatistics(execution[1]), page))
       \/ \E e \in Exceptions :
            /\ calls' = Append(calls, Call("get_query_results", query_execution_id[1],
                                           MaxResultsOf(request), "raised", e.msg))
            /\ result' = Some(ErrorResult(e))
            /\ UNCHANGED results_response
    /\ pc' = "done"
    /\ UNCHANGED <<request, query_execution_id, start_time, status, state_change_reason,
                   execution, now, remote, fault>>
    /\ UNCHANGED <<execute_params, wake_at, outside>>

(* The engine answers with any page of at most MaxResults raw rows. *)
GetQueryResults == GetQueryResultsFrom(Pages(MaxResultsOf(request)))

(* The engine runs the execution on its own. *)
EngineStep ==
    /\ \E id \in QueryIds :
         /\ remote[id] \in NonTerminal
         /\ \/ remote[id] = "QUEUED" /\ remote' = [remote EXCEPT ![id] = "RUNNING"]
            \/ \E st \in EngineTerminal : remote' = [remote EXCEPT ![id] = st]
    /\ UNCHANGED <<pc, request, query_execution_id, start_time, status,
                   state_change_reason, execution, results_response, now, calls,
                   result, fault>>
    /\ UNCHANGED <<execute_params, wake_at, outside>>

Next ==
    \/ ToolCall
    \/ StartQueryExecution
    \/ LoopCheck
    \/ Sleep
    \/ GetQueryExecution
    \/ Classify
    \/ GetQueryResults
    \/ EngineStep


Spec == Init /\ [][Next]_vars

(* ---- the submission under every environment and context parameter ---- *)

InitContext == InitWith(Environments, {})

ToolCallContext == ToolCallWith({None}, {Some(1)}, RequestStrings)

NextContext ==
    \/ ToolCallContext
    \/ StartQueryExecution

SpecContext == InitContext /\ [][NextContext]_vars

(* ---- concurrent execute_query calls on the one event loop ---- *)

(* The locals of the running coroutine. *)
Frame ==
    [pc |-> pc, request |-> request, query_execution_id |-> query_execution_id,
     start_time |-> start_time, status |-> status,
     state_change_reason |-> state_change_reason, execution |-> execution,
     results_response |-> results_response, calls |-> calls, result |-> result,
     fault |-> fault, execute_params |-> execute_params, wake_at |-> wake_at]

(* A resumption that takes the execution identifier from state the calls    *)
(* share instead of from the coroutine's own frame.                         *)
ResumeSharedId(f) ==
    /\ pc' = f.pc
    /\ request' = f.request
    /\ query_execution_id' = query_execution_id
    /\ start_time' = f.start_time
    /\ status' = f.status
    /\ state_change_reason' = f.state_change_reason
    /\ execution' = f.execution
    /\ results_response' = f.results_response
    /\ calls' = f.calls
    /\ result' = f.result
    /\ fault' = f.fault
    /\ execute_params' = f.execute_params
    /\ wake_at' = f.wake_at

(* The event loop resumes a coroutine: every name execute_query uses is a   *)
(* local of its own frame (the client's attributes are only read).          *)
Resume(f) ==
    /\ pc' = f.pc
    /\ request' = f.request
    /\ query_execution_id' = f.query_execution_id
    /\ start_time' = f.start_time
    /\ status' = f.status
    /\ state_change_reason' = f.state_change_reason
    /\ execution' = f.execution
    /\ results_response' = f.results_response
    /\ calls' = f.calls
    /\ result' = f.result
    /\ fault' = f.fault
    /\ execute_params' = f.execute_params
    /\ wake_at' = f.wake_at

(* Where a call lets the event loop run another one: before it starts, in   *)
(* await asyncio.sleep(1) (the boto3 calls block the loop), and once it has *)
(* ended.                                                                   *)
SuspensionPoints == {"idle", "sleep", "done", "raised"}

(* The event loop leaves the running call at a suspension point and runs    *)
(* another call that has not ended.                                         *)
Switch ==
    /\ pc \in SuspensionPoints
    /\ \E t \in DOMAIN suspended :
         /\ suspended[t].pc \in {"idle", "sleep"}
         /\ task' = t
         /\ suspended' = [u \in (DOMAIN suspended \ {t}) \cup {task} |->
                             IF u = task THEN Frame ELSE suspended[u]]
         /\ Resume(suspended[t])
    /\ UNCHANGED <<now, remote, environ, athena_client, lookup>>

(* With two calls in flight each execution has one result page, whose data  *)
(* row holds the execution's identifier, and one response per state.        *)
ResultPageOf(id) ==
    LET ci == <<[Name |-> "a", Type |-> "varchar"]>>
    IN  [ColumnInfo |-> Some(ci), Rows |-> Some(<<HeaderRow(ci), <<Some(id)>>>>)]

StatusResponseOf(st) ==
    [State |-> st,
     StateChangeReason |-> IF st \in {"FAILED", "CANCELLED"}
                           THEN Some("SYNTAX_ERROR: line 1") ELSE None,
     Statistics |-> None]

GetQueryExecutionConc ==
    GetQueryExecutionFrom({StatusResponseOf(remote[query_execution_id[1]])})

GetQueryResultsConc == GetQueryResultsFrom({ResultPageOf(query_execution_id[1])})

InitConc == InitWith({UnsetEnvironment}, {"t2"})

ToolCallConc == ToolCallWith({Some(2)}, {Some(2)}, {None})

NextConc ==
    \/ ToolCallConc
    \/ StartQueryExecution
    \/ LoopCheck
    \/ Sleep
    \/ GetQueryExecutionConc
    \/ Classify
    \/ GetQueryResultsConc
    \/ EngineStep
    \/ Switch

SpecConc == InitConc /\ [][NextConc]_vars

(* ---- the catalog pass-throughs: list_databases, list_tables, ---- *)
(* ---- get_table_metadata                                       ---- *)

DatabaseArg == "db"
TableArg == "tbl"

(* catalog_name = catalog or self.default_catalog *)
CatalogName(catalog, client) == Or(catalog, client.default_catalog)

(* The entries of a DatabaseList or TableMetadataList: Name = None is an    *)
(* entry without the key 'Name'.                                            *)
NameEntries == {[Name |-> None], [Name |-> Some("n1")], [Name |-> Some("n2")]}

(* The entries of TableMetadata.Columns, either key possibly missing. *)
ColumnEntries ==
    {[Name |-> Some("c1"), Type |-> Some("string")],
     [Name |-> None, Type |-> Some("int")],
     [Name |-> Some("c2"), Type |-> None]}

ListsOf(entries) ==
    UNION {[1..n -> entries] : n \in 0..MaxItems}

(* What a service call does: it raises, or it answers. *)
Raised(e) == [raised |-> Some(e), response |-> None]
Answered(r) == [raised |-> None, response |-> Some(r)]

(* list_databases and list_table_metadata answer with a list, or without    *)
(* the list key (None).                                                     *)
ListOutcomes ==
    {Raised(e) : e \in Exceptions}
    \cup {Answered(None)}
    \cup {Answered(Some(l)) : l \in ListsOf(NameEntries)}

(* get_table_metadata answers without 'TableMetadata', without 'Columns',   *)
(* or with a column list.                                                   *)
MetadataOutcomes ==
    {Raised(e) : e \in Exceptions}
    \cup {Answered(None), Answered(Some([Columns |-> None]))}
    \cup {Answered(Some([Columns |-> Some(l)])) : l \in ListsOf(ColumnEntries)}

(* response.get(key, []) *)
GetOrEmpty(o) == IF o = None THEN <<>> ELSE o[1]

(* The body of list_databases / list_tables after catalog_name: the names   *)
(* of the listed entries; a raising call, or an entry without 'Name'        *)
(* (KeyError), is caught and gives the empty list.                          *)
ListNames(outcome) ==
    IF outcome.raised # None
    THEN [returned |-> <<>>, fault |-> None]
    ELSE LET l == GetOrEmpty(outcome.response[1])
         IN  IF \E i \in 1..Len(l) : l[i].Name = None
             THEN [returned |-> <<>>, fault |-> None]
             ELSE [returned |-> [i \in 1..Len(l) |-> l[i].Name[1]], fault |-> None]

(* The dict get_table_metadata returns; error = None is a dict without the  *)
(* key 'error'.                                                             *)
TableRecord(table, database, catalog_name, columns, error) ==
    [name |-> table, database |-> database, catalog |-> catalog_name,
     columns |-> columns, error |-> error]

(* A failed lookup that returns the record of a table without columns. *)
TableMetadataOfSilent(table, database, catalog_name, outcome) ==
    IF outcome.raised # None
    THEN [returned |-> TableRecord(table, database, catalog_name, <<>>, None),
          fault |-> None]
    ELSE LET table_metadata == outcome.response[1]
             cols == IF table_metadata = None THEN <<>>
                     ELSE GetOrEmpty(table_metadata[1].Columns)
         IN  [returned |->
                  TableRecord(table, database, catalog_name,
                              [i \in 1..Len(cols) |->
                                  [name |-> cols[i].Name, type |-> cols[i].Type]],
                              None),
              fault |-> None]

(* The body of get_table_metadata after catalog_name, lines 237-267. *)
TableMetadataOf(table, database, catalog_name, outcome) ==
    IF outcome.raised # None
    THEN [returned |-> TableRecord(table, database, catalog_name, <<>>,
                                   Some(outcome.raised[1].msg)),
          fault |-> None]
    ELSE LET table_metadata == outcome.response[1]
             cols == IF table_metadata = None THEN <<>>
                     ELSE GetOrEmpty(table_metadata[1].Columns)
         IN  [returned |->
                  TableRecord(table, database, catalog_name,
                              [i \in 1..Len(cols) |->
                                  [name |-> cols[i].Name, type |-> cols[i].Type]],
                              None),
              fault |-> None]

(* One lookup: the tool, its arguments, the catalog name sent to the        *)
(* service, what the service did, and what the tool returned or raised.     *)
Lookup(op, catalog, outcome, out) ==
    [op |-> op, catalog |-> catalog,
     CatalogName |-> CatalogName(catalog, athena_client),
     outcome |-> outcome, returned |-> out.returned, fault |-> out.fault]

ListDatabases ==
    /\ pc = "idle"
    /\ \E catalog \in RequestStrings, outcome \in ListOutcomes :
         lookup' = Some(Lookup("list_databases", catalog, outcome,
                               ListNames(outcome)))
    /\ UNCHANGED <<pc, request, query_execution_id, start_time, status,
                   state_change_reason, execution, results_response, now, remote,
                   calls, result, fault, execute_params, wake_at, environ,
                   athena_client, task, suspended>>

ListTables ==
    /\ pc = "idle"
    /\ \E catalog \in RequestStrings, outcome \in ListOutcomes :
         lookup' = Some(Lookup("list_tables", catalog, outcome,
                               ListNames(outcome)))
    /\ UNCHANGED <<pc, request, query_execution_id, start_time, status,
                   state_change_reason, execution, results_response, now, remote,
                   calls, result, fault, execute_params, wake_at, environ,
                   athena_client, task, suspended>>

GetTableMetadata ==
    /\ pc = "idle"
    /\ \E catalog \in RequestStrings, outcome \in MetadataOutcomes :
         lookup' = Some(Lookup("get_table_metadata", catalog, outcome,
                               TableMetadataOf(TableArg, DatabaseArg,
                                   CatalogName(catalog, athena_client), outcome)))
    /\ UNCHANGED <<pc, request, query_execution_id, start_time, status,
                   state_change_reason, execution, results_response, now, remote,
                   calls, result, fault, execute_params, wake_at, environ,
                   athena_client, task, suspended>>

(* The server under every setting of ATHENA_CATALOG. *)
CatalogEnvironments ==
    {e \in Environments : /\ e.ATHENA_DATABASE = None
                          /\ e.ATHENA_WORKGROUP = None
                          /\ e.ATHENA_OUTPUT_LOCATION = None}

InitCatalog == InitWith(CatalogEnvironments, {})

NextCatalog ==
    \/ ListDatabases
    \/ ListTables
    \/ GetTableMetadata

SpecCatalog == InitCatalog /\ [][NextCatalog]_vars

(* The steps of the call itself. *)
CallStep ==
    \/ StartQueryExecution
    \/ LoopCheck
    \/ Sleep
    \/ GetQueryExecution
    \/ Classify
    \/ GetQueryResults

(***************************************************************************)
(* Properties.                                                             *)
(***************************************************************************)
Returned == result # None
Res == result[1]
LastCall == calls[Len(calls)]
Submitted == calls # <<>> /\ calls[1].op = "start_query_execution" /\ calls[1].out = "ok"

(* C1: every invocation of the execute_query tool ends by returning a       *)
(* QueryResults value and never by a fault escaping to the caller.          *)
C1_AlwaysReturnsQueryResults ==
    pc \in {"done", "raised"} => (Returned /\ fault = None)

(* C2: in every returned QueryResults, rows is populated iff status is      *)
(* SUCCEEDED and error_message is populated iff status is not SUCCEEDED     *)
(* (FAILED, CANCELLED, ERROR and TIMEOUT included).                         *)
C2_RowsIffSucceededErrorIffNot ==
    Returned =>
        /\ (Res.rows # None) <=> (Res.status = "SUCCEEDED")
        /\ (Res.error_message # None) <=> (Res.status # "SUCCEEDED")

(* C3: every error result carries the identifier the engine returned        *)
(* whenever submission succeeded, and the empty identifier only when        *)
(* submission itself failed.                                                *)
C3_ErrorCarriesKnownIdentifier ==
    (Returned /\ Res.status # "SUCCEEDED") =>
        Res.query_execution_id = (IF Submitted THEN calls[1].detail ELSE "")

(* C4: if submission succeeds and every status fetch returns QUEUED or      *)
(* RUNNING until the deadline, the call returns TIMEOUT with the            *)
(* execution's identifier and a reason naming max_wait_seconds, not the     *)
(* engine's non-terminal status.                                            *)
C4_TimeoutOnDeadline ==
    (/\ pc = "done"
     /\ Submitted
     /\ \A i \in 2..Len(calls) :
            /\ calls[i].op = "get_query_execution"
            /\ calls[i].out = "ok"
            /\ calls[i].detail \in {"QUEUED", "RUNNING"})
    => /\ Res.status = "TIMEOUT"
       /\ Res.query_execution_id = calls[1].detail
       /\ Res.state_change_reason =
              Some("Query exceeded maximum wait time of "
                   \o IntToStr(request.max_wait_seconds[1]) \o " seconds")

C4_Witness ==
    /\ pc = "done"
    /\ Returned
    /\ Res.status = "TIMEOUT"
    /\ Len(calls) = 3
    /\ calls[2].detail = "QUEUED"
    /\ calls[3].detail = "RUNNING"
    /\ now - start_time = 2
    /\ request.max_wait_seconds = Some(2)

(* C5: a request whose max_results is outside [1,1000] or whose             *)
(* max_wait_seconds is outside [1,3600] is rejected with a validation       *)
(* error before any engine call is issued.                                  *)
OutOfBounds(o, lo, hi) == o # None /\ (o[1] < lo \/ o[1] > hi)

C5_RejectedBeforeAnyEngineCall ==
    (/\ pc # "idle"
     /\ \/ OutOfBounds(request.max_results, 1, 1000)
        \/ OutOfBounds(request.max_wait_seconds, 1, 3600))
    => /\ pc = "raised"
       /\ fault = Some("ValidationError")
       /\ calls = <<>>
       /\ Issued = {}
       /\ ~Returned

C5_Witness ==
    /\ pc = "raised"
    /\ request.max_results = Some(1)
    /\ request.max_wait_seconds = Some(3601)
    /\ calls = <<>>

(* C6: no retries: submit is issued at most once, no engine call follows    *)
(* an engine call that failed, and the call then returns an ERROR result    *)
(* carrying the failure's message.                                          *)
C6_NoRetries ==
    /\ Cardinality({i \in 1..Len(calls) : calls[i].op = "start_query_execution"}) <= 1
    /\ \A i \in 1..Len(calls) : calls[i].out = "raised" => i = Len(calls)
    /\ (calls # <<>> /\ LastCall.out = "raised") =>
          /\ pc = "done"
          /\ Res.status = "ERROR"
          /\ Res.error_message \in {Some("AWS Client Error: " \o LastCall.detail),
                                    Some("Internal Server Error: " \o LastCall.detail)}

C6_Witness ==
    /\ pc = "done"
    /\ Len(calls) = 3
    /\ calls[2].out = "ok"
    /\ calls[3].op = "get_query_execution"
    /\ calls[3].out = "raised"
    /\ Res.status = "ERROR"

(* C7: execute_query never cancels or changes a remote execution: it        *)
(* issues only submit, get_status and get_results, and no step of the call  *)
(* changes the engine's state of the execution other than the submission    *)
(* that creates it, so after TIMEOUT or ERROR the execution can still run   *)
(* to completion.                                                           *)
C7_RemoteExecutionUntouched ==
    /\ [](\A i \in 1..Len(calls) :
            calls[i].op \in {"start_query_execution", "get_query_execution",
                             "get_query_results"})
    /\ [][pc' # pc =>
            \/ remote' = remote
            \/ /\ pc = "submit"
               /\ \E id \in QueryIds :
                    /\ remote[id] = "NONE"
                    /\ remote' = [remote EXCEPT ![id] = "QUEUED"]]_vars

C7_Witness ==
    /\ pc = "done"
    /\ Returned
    /\ Res.status = "TIMEOUT"
    /\ remote[query_execution_id[1]] = "SUCCEEDED"

(* C8: when the status fetch that ends polling reports FAILED or CANCELLED, *)
(* the call returns that status with the execution's identifier and with    *)
(* error_message equal to the engine's reason; without a reason,            *)
(* error_message is a message naming the status.                            *)
C8_FailureCarriesReason ==
    (/\ pc = "done"
     /\ calls # <<>>
     /\ LastCall.op = "get_query_execution"
     /\ LastCall.out = "ok"
     /\ LastCall.detail \in {"FAILED", "CANCELLED"})
    => LET reason == execution[1].StateChangeReason IN
       /\ Res.status = LastCall.detail
       /\ Res.query_execution_id = calls[1].detail
       /\ reason \notin {None, Some("")} => Res.error_message = reason
       /\ reason \in {None, Some("")} =>
              Res.error_message = Some("Query failed with status: " \o LastCall.detail)

C8_Witness ==
    /\ pc = "done"
    /\ Returned
    /\ Res.status = "CANCELLED"
    /\ execution # None
    /\ execution[1].StateChangeReason = None
    /\ Res.error_message = Some("Query failed with status: CANCELLED")

(* C9: decoding drops the first raw row exactly when it duplicates the      *)
(* column header: a page whose first row is the header loses only that row, *)
(* a page whose first row is a data row loses nothing, a page with zero     *)
(* rows yields an empty row list.                                           *)
RawRowsOf(page) == IF page.Rows = None THEN <<>> ELSE page.Rows[1]

ExpectedDataRows(page) ==
    LET rr == RawRowsOf(page) IN
    IF rr # <<>> /\ rr[1] = HeaderRow(page.ColumnInfo[1]) THEN Tail(rr) ELSE rr

C9_DropsOnlyHeaderRow ==
    (Returned /\ Res.status = "SUCCEEDED") =>
        LET page == results_response[1]
            kept == ExpectedDataRows(page)
        IN /\ Len(Res.rows[1]) = Len(kept)
           /\ \A j \in 1..Len(kept) :
                 Res.rows[1][j] = DecodeRow(Res.columns[1], kept[j])

(* C10: in every SUCCEEDED result each decoded row has exactly as many      *)
(* fields as there are columns and the i-th column's name maps to the i-th  *)
(* raw cell of that row, also when two columns have the same name.          *)
C10_RowFieldsMatchColumns ==
    (Returned /\ Res.status = "SUCCEEDED") =>
        LET columns == Res.columns[1]
            data_rows == DataRows(RawRowsOf(results_response[1]))
        IN \A j \in 1..Len(Res.rows[1]) :
              /\ Cardinality(DOMAIN Res.rows[1][j]) = Len(columns)
              /\ \A i \in 1..Len(columns) :
                    i <= Len(data_rows[j]) =>
                        Res.rows[1][j][columns[i].name] = data_rows[j][i]

(* C11: for every valid request that ends in SUCCEEDED, the results fetch   *)
(* asks for the request's max_results (100 when not given), the engine      *)
(* returns at most that many raw rows and the result has at most that many  *)
(* rows.                                                                    *)
RequestedMaxResults ==
    IF request.max_results = None THEN 100 ELSE request.max_results[1]

C11_RowsWithinMaxResults ==
    (Returned /\ Res.status = "SUCCEEDED") =>
        /\ LastCall.op = "get_query_results"
        /\ LastCall.max_results = RequestedMaxResults
        /\ Len(RawRowsOf(results_response[1])) <= RequestedMaxResults
        /\ Len(Res.rows[1]) <= RequestedMaxResults

C11_Witness ==
    /\ Returned
    /\ Res.status = "SUCCEEDED"
    /\ request.max_results = Some(2)
    /\ Len(RawRowsOf(results_response[1])) = 2
    /\ Len(Res.rows[1]) = 1

(* C12: in a decoded data row, a cell without a value and a cell position   *)
(* beyond the end of a short row both decode to null for that column, a     *)
(* cell with a value decodes to that value, and neither case raises.        *)
C12_MissingCellsDecodeToNull ==
    (pc = "done" /\ results_response # None /\ results_response[1].ColumnInfo # None) =>
        /\ Res.status = "SUCCEEDED"
        /\ LET columns == Res.columns[1]
               data_rows == DataRows(RawRowsOf(results_response[1]))
           IN /\ Len(Res.rows[1]) = Len(data_rows)
              /\ \A j \in 1..Len(data_rows) : \A i \in 1..Len(columns) :
                    Res.rows[1][j][columns[i].name] =
                        (IF i > Len(data_rows[j]) \/ data_rows[j][i] = None
                         THEN None ELSE data_rows[j][i])

(* C13: in every SUCCEEDED, FAILED or CANCELLED result, statistics is       *)
(* absent exactly when the last status response had no statistics block;    *)
(* otherwise it has the five fields, each null exactly when its source      *)
(* field is absent, whether or not rows were decoded.                       *)
C13_StatisticsMirrorBlock ==
    (Returned /\ Res.status \in {"SUCCEEDED", "FAILED", "CANCELLED"}) =>
        LET block == execution[1].Statistics IN
        /\ (Res.statistics = None) <=> (block = None)
        /\ block # None =>
              LET st == Res.statistics[1] IN
              /\ DOMAIN st = {"processing_time_ms", "data_scanned_bytes",
                              "engine_execution_time_ms", "query_queue_time_ms",
                              "service_processing_time_ms"}
              /\ st.processing_time_ms = block[1].TotalExecutionTimeInMillis
              /\ st.data_scanned_bytes = block[1].DataScannedInBytes
              /\ st.engine_execution_time_ms = block[1].EngineExecutionTimeInMillis
              /\ st.query_queue_time_ms = block[1].QueryQueueTimeInMillis
              /\ st.service_processing_time_ms = block[1].ServiceProcessingTimeInMillis

C13_Witness ==
    /\ Returned
    /\ Res.status = "FAILED"
    /\ Res.rows = None
    /\ Res.statistics # None
    /\ Res.statistics[1].processing_time_ms = None
    /\ Res.statistics[1].data_scanned_bytes = Some(2048)

StatusFetches == {i \in 1..Len(calls) : calls[i].op = "get_query_execution"}
LastStatusFetch == calls[CHOOSE i \in StatusFetches : \A j \in StatusFetches : j <= i]

C18_PollerWaitsThenStopsOnTerminal ==
    /\ [][(pc # "fetch" /\ pc' = "fetch") => (pc = "sleep" /\ now' >= now + 1)]_vars
    /\ [][(Len(calls') > Len(calls) /\ calls'[Len(calls')].op = "get_query_execution")
              => pc = "fetch"]_vars
    /\ [](\A i \in StatusFetches :
             (calls[i].out = "ok" /\ calls[i].detail \notin {"QUEUED", "RUNNING"})
                 => \A j \in StatusFetches : j <= i)
    /\ []((pc \in {"loop", "after", "results"} /\ StatusFetches # {})
             => status = LastStatusFetch.detail)
    /\ []((Returned /\ Res.status \in {"QUEUED", "RUNNING", "SUCCEEDED", "FAILED",
                                        "CANCELLED"})
             => (StatusFetches # {} /\ Res.status = LastStatusFetch.detail))

C18_Witness ==
    /\ pc = "done"
    /\ Len(calls) = 3
    /\ calls[2].detail = "QUEUED"
    /\ calls[3].detail = "FAILED"
    /\ Res.status = "FAILED"
    /\ request.max_wait_seconds = Some(2)
    /\ now - start_time = 2

(* C19: the status of every returned QueryResults is SUCCEEDED, FAILED,     *)
(* CANCELLED, TIMEOUT or ERROR, never QUEUED or RUNNING, however much time  *)
(* passes between the last status fetch and the deadline test.              *)
C19_StatusIsTerminal ==
    Returned => Res.status \in {"SUCCEEDED", "FAILED", "CANCELLED", "TIMEOUT", "ERROR"}

C19_Witness ==
    /\ pc = "done"
    /\ Returned
    /\ Res.status = "TIMEOUT"
    /\ status = "QUEUED"
    /\ request.max_wait_seconds = Some(1)
    /\ now - start_time > 1

(* C20: every call whose engine calls return ends by returning a result,    *)
(* and after a successful submission it performs at least one and at most   *)
(* max_wait_seconds status fetches.  Termination is stated by a variant:    *)
(* a call that has not ended can always take a step, every step of the call *)
(* decreases Variant, which is a natural number, and the call ends with a   *)
(* result.                                                                  *)
Remaining ==
    IF now - start_time >= request.max_wait_seconds[1] THEN 0
    ELSE request.max_wait_seconds[1] - (now - start_time)

Variant ==
    CASE pc = "submit"  -> 4 * request.max_wait_seconds[1] + 7
      [] pc = "fetch"   -> 4 * Remaining + 6
      [] pc = "loop"    -> 4 * Remaining + 5
      [] pc = "sleep"   -> 4 * Remaining + 4
      [] pc = "after"   -> 2
      [] pc = "results" -> 1
      [] OTHER          -> 0

C20_TerminatesWithBoundedPolling ==
    /\ [](Submitted => Cardinality(StatusFetches) <= request.max_wait_seconds[1])
    /\ []((pc = "done" /\ Submitted) => Cardinality(StatusFetches) >= 1)
    /\ [](pc \in {"submit", "loop", "sleep", "fetch", "after", "results"}
             => ENABLED CallStep)
    /\ [][(pc # "idle" /\ pc' # pc) => (Variant' < Variant /\ Variant' >= 0)]_vars
    /\ [](pc = "done" => Returned)

C20_Witness ==
    /\ pc = "done"
    /\ Returned
    /\ request.max_wait_seconds = Some(2)
    /\ Cardinality(StatusFetches) = 2
(* ---- C14 ---- *)

(* The value a parameter resolves to by precedence, an empty string being no *)
(* value at any level: the first non-empty of the explicit request value,    *)
(* the environment variable and the built-in default (None: none resolves).  *)
Resolved(explicit, env, builtin) ==
    IF TruthyStr(explicit) THEN explicit
    ELSE IF TruthyStr(env) THEN env
    ELSE builtin

(* C14: the arguments submitted to start_query_execution carry, for each of  *)
(* catalog, database, workgroup and output location, the value resolved by   *)
(* precedence explicit request value, then environment variable, then        *)
(* built-in default (catalog and workgroup only), empty strings included:    *)
(* the workgroup is always sent with its resolved value, the context is      *)
(* omitted exactly when neither catalog nor database resolves, and the       *)
(* output-location configuration exactly when no output location resolves.   *)
C14_ContextResolvedByPrecedence ==
    execute_params # None =>
        LET sent      == execute_params[1]
            catalog   == Resolved(request.catalog, environ.ATHENA_CATALOG,
                                  Some(BuiltinCatalog))
            database  == Resolved(request.database, environ.ATHENA_DATABASE, None)
            workgroup == Resolved(request.workgroup, environ.ATHENA_WORKGROUP,
                                  Some(BuiltinWorkgroup))
            output_location == Resolved(request.output_location,
                                        environ.ATHENA_OUTPUT_LOCATION, None)
        IN  /\ sent.WorkGroup = workgroup
            /\ sent.QueryExecutionContext = None
                   <=> (catalog = None /\ database = None)
            /\ sent.QueryExecutionContext # None =>
                   sent.QueryExecutionContext[1] =
                       [Catalog |-> catalog, Database |-> database]
            /\ sent.ResultConfiguration =
                   IF output_location = None THEN None
                   ELSE Some([OutputLocation |-> output_location[1]])

(* The same resolution, restricted to environments that hold no empty value. *)
C14_HoldsWithoutEmptyEnvironment ==
    (\A k \in DOMAIN environ : environ[k] # Some(""))
        => C14_ContextResolvedByPrecedence

(* ---- C15 ---- *)

Tasks == {task} \cup DOMAIN suspended
FrameOf(t) == IF t = task THEN Frame ELSE suspended[t]
AllFrames == [t \in Tasks |-> FrameOf(t)]

(* The call of frame f has submitted; the identifier its submit returned. *)
FrameSubmitted(f) ==
    /\ f.calls # <<>>
    /\ f.calls[1].op = "start_query_execution"
    /\ f.calls[1].out = "ok"
OwnId(f) == f.calls[1].detail

(* What the call of frame f returns when it runs alone and the engine gives  *)
(* it the responses of f's own call log.                                     *)
AloneResult(f) ==
    LET last == f.calls[Len(f.calls)]
    IN  IF last.out = "raised"
        THEN ErrorResult(CHOOSE e \in Exceptions : e.msg = last.detail)
        ELSE IF last.op = "get_query_results"
        THEN SuccessResult(OwnId(f), "SUCCEEDED",
                 ExtractStatistics(StatusResponseOf("SUCCEEDED")),
                 ResultPageOf(OwnId(f)))
        ELSE IF last.op = "get_query_execution" /\ last.detail \in {"FAILED", "CANCELLED"}
        THEN FailedResult(OwnId(f), last.detail,
                 StatusResponseOf(last.detail).StateChangeReason,
                 ExtractStatistics(StatusResponseOf(last.detail)))
        ELSE TimeoutResult(OwnId(f), MaxWaitOf(f.request))

(* C15: with two execute_query calls interleaved at their suspension points, *)
(* each call polls and fetches results only for the identifier its own       *)
(* submit returned, the two identifiers differ, each call's result is the    *)
(* one it returns alone on the responses of its own call log (and a terminal *)
(* status is the state of its own execution), and no step of the running     *)
(* call, nor a switch between calls, changes another call's frame or the     *)
(* shared client.                                                            *)
C15_ConcurrentCallsIndependent ==
    /\ [](\A t \in Tasks :
            LET f == FrameOf(t) IN
            /\ f.query_execution_id # None =>
                   FrameSubmitted(f) /\ f.query_execution_id = Some(OwnId(f))
            /\ \A k \in 2..Len(f.calls) :
                   /\ f.calls[k].op \in {"get_query_execution", "get_query_results"}
                   /\ FrameSubmitted(f)
                   /\ f.calls[k].id = OwnId(f)
            /\ \A u \in Tasks \ {t} :
                   (FrameSubmitted(f) /\ FrameSubmitted(FrameOf(u)))
                       => OwnId(f) # OwnId(FrameOf(u))
            /\ f.result # None =>
                   /\ f.result[1] = AloneResult(f)
                   /\ f.result[1].status \in EngineTerminal =>
                          remote[OwnId(f)] = f.result[1].status)
    /\ [][/\ task' = task => suspended' = suspended
          /\ task' # task => (AllFrames' = AllFrames /\ remote' = remote)
          /\ athena_client' = athena_client]_vars

(* The second call has returned its own rows while the first, submitted      *)
(* before it, is suspended between two polls of its own execution.           *)
C15_Witness ==
    /\ task = "t2"
    /\ pc = "done"
    /\ Returned
    /\ Res.status = "SUCCEEDED"
    /\ Res.query_execution_id = "qid-2"
    /\ Res.rows = Some(<<[a |-> Some("qid-2")]>>)
    /\ suspended["t1"].pc = "sleep"
    /\ suspended["t1"].query_execution_id = Some("qid-1")
    /\ Len(suspended["t1"].calls) = 2

(* ---- C16 ---- *)

FailedLookup == lookup # None /\ lookup[1].outcome.raised # None

(* What the lookup returns when the service answers with no items. *)
NoItemsReturn(l) ==
    IF l.op = "get_table_metadata"
    THEN TableMetadataOf(TableArg, DatabaseArg, l.CatalogName,
                         Answered(Some([Columns |-> Some(<<>>)]))).returned
    ELSE ListNames(Answered(Some(<<>>))).returned

(* What a failed lookup returns, as claimed for each pass-through. *)
FailSoftReturn(l) ==
    /\ l.fault = None
    /\ IF l.op = "get_table_metadata"
       THEN /\ l.returned.name = TableArg
            /\ l.returned.database = DatabaseArg
            /\ l.returned.catalog = CatalogName(l.catalog, athena_client)
            /\ l.returned.columns = <<>>
            /\ l.returned.error = Some(l.outcome.raised[1].msg)
       ELSE l.returned = <<>>

(* C16 as stated: a failed list_databases or list_tables returns the empty  *)
(* list, a failed get_table_metadata the record of the requested name,      *)
(* database and catalog with no columns and an error field, none raises,    *)
(* and what a failed lookup returns equals what the same lookup returns     *)
(* when it finds no items.                                                  *)
C16_FailedLookupLooksEmpty ==
    FailedLookup =>
        /\ FailSoftReturn(lookup[1])
        /\ lookup[1].returned = NoItemsReturn(lookup[1])

(* C16 amended: the pass-throughs fail soft as stated, and only a failed     *)
(* list_databases or list_tables equals a lookup that found no items; a      *)
(* failed get_table_metadata differs from the lookup of a table without      *)
(* columns by its error field, and by nothing else.                          *)
C16_FailSoftListsLookEmpty ==
    /\ lookup # None => lookup[1].fault = None
    /\ FailedLookup =>
        /\ FailSoftReturn(lookup[1])
        /\ IF lookup[1].op = "get_table_metadata"
           THEN /\ lookup[1].returned # NoItemsReturn(lookup[1])
                /\ [lookup[1].returned EXCEPT !.error = None]
                       = NoItemsReturn(lookup[1])
           ELSE lookup[1].returned = NoItemsReturn(lookup[1])

C16_Witness ==
    /\ FailedLookup
    /\ lookup[1].op = "get_table_metadata"
    /\ lookup[1].catalog = Some("")
    /\ lookup[1].returned.error # None

(* ---- C21 ---- *)

(* The call has ended and its last status fetch returned a terminal status. *)
EndedOnTerminalFetch ==
    /\ pc = "done"
    /\ Returned
    /\ StatusFetches # {}
    /\ LastStatusFetch.out = "ok"
    /\ LastStatusFetch.detail \in EngineTerminal

(* C21 as stated: when the last status fetch returns SUCCEEDED, FAILED or    *)
(* CANCELLED the result has that status, with rows for SUCCEEDED, whatever   *)
(* the elapsed time; a TIMEOUT result follows a last status fetch that       *)
(* returned QUEUED or RUNNING.                                               *)
C21_TerminalStatusIsReturned ==
    /\ EndedOnTerminalFetch =>
          /\ Res.status = LastStatusFetch.detail
          /\ Res.status = "SUCCEEDED" => Res.rows # None
    /\ (Returned /\ Res.status = "TIMEOUT") =>
          /\ StatusFetches # {}
          /\ LastStatusFetch.out = "ok"
          /\ LastStatusFetch.detail \in NonTerminal

(* C21 amended: the deadline never overrides a terminal status of the last   *)
(* status fetch. FAILED and CANCELLED are returned as such; SUCCEEDED is     *)
(* returned with rows when the result fetch returns a page with column       *)
(* metadata, and otherwise the result is ERROR, never TIMEOUT; a TIMEOUT     *)
(* result follows a last status fetch that returned QUEUED or RUNNING.       *)
C21_TerminalStatusBeatsDeadline ==
    /\ EndedOnTerminalFetch =>
          /\ Res.status # "TIMEOUT"
          /\ LastStatusFetch.detail \in {"FAILED", "CANCELLED"} =>
                 Res.status = LastStatusFetch.detail
          /\ LastStatusFetch.detail = "SUCCEEDED" =>
                 /\ LastCall.op = "get_query_results"
                 /\ IF LastCall.out = "ok" /\ results_response[1].ColumnInfo # None
                    THEN Res.status = "SUCCEEDED" /\ Res.rows # None
                    ELSE Res.status = "ERROR" /\ Res.rows = None
    /\ (Returned /\ Res.status = "TIMEOUT") =>
          /\ StatusFetches # {}
          /\ LastStatusFetch.out = "ok"
          /\ LastStatusFetch.detail \in NonTerminal

(* SUCCEEDED is observed by a fetch that returns after the deadline, and the *)
(* result carries the rows.                                                  *)
C21_Witness ==
    /\ EndedOnTerminalFetch
    /\ LastStatusFetch.detail = "SUCCEEDED"
    /\ Res.status = "SUCCEEDED"
    /\ Res.rows # None
    /\ Len(Res.rows[1]) = 1
    /\ request.max_wait_seconds = Some(1)
    /\ now - start_time > 1

====
